---- MODULE Spec2Model ----
(***************************************************************************)
(* Model of twitchstream/outputvideo.py: the sink adapter and immediate    *)
(* stream (TwitchOutputStream), the repeater scheduler                     *)
(* (TwitchOutputStreamRepeater) and the buffered reordering scheduler      *)
(* (TwitchBufferedOutputStream).                                           *)
(*                                                                         *)
(* The ffmpeg child process is the environment: it may exit at any moment  *)
(* with any exit status, also while a send_frame call is blocked in the    *)
(* write to its stdin pipe.  A write to the pipe of a process that has     *)
(* exited raises IOError; a write to a running process succeeds.           *)
(*                                                                         *)
(* Every call that blocks or lets another thread run is a step of its own: *)
(* reset() is send_signal, then Popen, then the store of self.pipe, and a  *)
(* tick that has started the next Timer or Thread is still inside start(). *)
(***************************************************************************)
EXTENDS Integers, Sequences, FiniteSets

\* ------------------------------------------------------------------ bounds

\* sink processes ever launched: the first one, and one for every exit of a
\* process and every reset() call of the user
MaxProcs == 3
\* the sink log keeps the most recent MaxLog writes
MaxLog == 4
\* distinct well-shaped frame contents a producer may supply
NumFrames == 2
\* Buffered: producer threads, send_frame calls in all, largest explicit
\* sequence number, emission ticks, clock range
NumProducers == 2
MaxSubmits == 3
MaxSeq == 2
MaxTicks == 4
MaxTime == 6
\* Buffered under lag: the tick that is held up is one of the first
\* MaxLateTick, and it ends at most MaxStall clock units after it was due
MaxLateTick == 2
MaxStall == 3

\* -------------------------------------------------------- program constants

Width == 640
Height == 480
\* 1/fps in clock units: a tick can take a clock unit and still less than
\* a period
Period == 2
\* Python's None, where a number is expected
None == -1

\* the shape send_frame asserts
FrameShape == <<Height, Width, 3>>
\* some other shape
BadShape == <<Height, Width, 4>>

\* np.ones((height, width, 3)): the neutral frame both schedulers start from
Ones == [id |-> 0, shape |-> FrameShape]

\* frames a producer may hand in: well-shaped ones and a wrongly shaped one
ProducerFrames ==
    {[id |-> i, shape |-> FrameShape] : i \in 1..NumFrames}
        \cup {[id |-> NumFrames + 1, shape |-> BadShape]}

\* Popen.returncode of a process that has exited: 0 for a clean exit, 1 for
\* any other status (an error exit, or the negative number of a signal)
ExitStatuses == {0, 1}

VARIABLES
    procs,        \* every sink process launched so far; torn is the frame a
                  \* process had read a part of when it exited during the
                  \* write of it
    pipe,         \* self.pipe: the index in procs of the process it refers to
    sinkLog,      \* the most recent frames written whole to a sink's stdin
    exitedScope,  \* __exit__ has run
    outcome,      \* the last TwitchOutputStream.send_frame call: how it ended
                  \* ("running" up to the write, "writing" in it), whether the
                  \* sink had exited when it polled, whether it reset
    call,         \* the TwitchOutputStream.send_frame call under way: where it
                  \* is, its frame, and the process it launched or writes to
    user,         \* the reset() call of the user's thread: where it is, the
                  \* process it launched, and the calls begun so far
    lastframe,    \* Repeater: self.lastframe
    rpc,          \* Repeater: where the emission loop is
    rframe,       \* Repeater: the argument of the tick's send_frame call
    rtimers,      \* Repeater: threading.Timer objects started and not yet fired
    ctor,         \* Repeater: where __init__ is
    last_frame,      \* Buffered: self.last_frame
    next_send_time,  \* Buffered: self.next_send_time
    frame_counter,   \* Buffered: self.frame_counter
    q,               \* Buffered: self.q, the heap list of the PriorityQueue
    ticks,           \* Buffered: every tick scheduled, in the order scheduled
    prod,            \* Buffered: each producer thread's place in send_frame
    submitted,       \* Buffered: the entries put so far, in the order put, each
                     \* with the number of ticks that had called get_nowait
    now              \* time.time()

baseVars == <<procs, pipe, sinkLog, exitedScope, outcome, call, user>>
repVars == <<lastframe, rpc, rframe, rtimers, ctor>>
bufVars == <<last_frame, next_send_time, frame_counter, q, ticks, prod, submitted, now>>
vars == <<baseVars, repVars, bufVars>>

\* ------------------------------------------------------- the sink adapter

\* sp.Popen(...): a freshly launched, running process
Popen == [exited |-> FALSE, status |-> 0, sigints |-> 0, torn |-> None]

\* the process self.pipe refers to
Pipe == procs[pipe]

\* the truth value of poll() on process pr: the return code, where None
\* (still running) and 0 are both false
Poll(pr) == pr.exited /\ pr.status # 0

\* send_signal(signal.SIGINT) called on process p; sigints counts the calls,
\* also those that raise OSError because the process is gone
SendSigint(ps, p) == [ps EXCEPT ![p].sigints = @ + 1]

\* sp.Popen(...) of reset(): one more process, not yet stored in self.pipe
Launch(ps) == Append(ps, Popen)

\* a whole frame has arrived at process pid; n numbers the entries modulo
\* MaxLog + 1, so that every write changes the log
LogAppend(log, frame, pid) ==
    LET n == IF log = <<>> THEN 0 ELSE (log[Len(log)].n + 1) % (MaxLog + 1)
        e == [n |-> n, frame |-> frame.id, pid |-> pid]
    IN  IF Len(log) < MaxLog THEN Append(log, e) ELSE Append(Tail(log), e)

\* no send_frame call is under way
NoCall == [pc |-> "none", frame |-> Ones, pid |-> 0]

\* a send_frame call is in self.pipe.stdin.write
Writing == call.pc = "write"

\* the user's thread is not in reset(); n reset() calls were begun
NoReset(n) == [pc |-> "idle", newp |-> 0, n |-> n]

\* TwitchOutputStream.send_frame(frame), line 166: self.pipe.poll(); a true
\* result sends the call into reset()
SendFramePoll(pr, frame) ==
    [call |-> [pc |-> IF Poll(pr) THEN "signal" ELSE "assert", frame |-> frame, pid |-> 0],
     outcome |-> [res |-> "running", dead |-> pr.exited, reset |-> FALSE]]

\* a send_frame without line 168: the frame is written whatever its shape
SendFrameAssertUnchecked(c, p) ==
    [res |-> "writing", call |-> [pc |-> "write", frame |-> c.frame, pid |-> p]]

\* lines 168-171: the shape assertion, and self.pipe evaluated for the write
SendFrameAssert(c, p) ==
    IF c.frame.shape # FrameShape
    THEN [res |-> "AssertionError", call |-> NoCall]
    ELSE [res |-> "writing", call |-> [pc |-> "write", frame |-> c.frame, pid |-> p]]

\* line 171 returns or raises: the write c to a process that has exited
\* raises IOError, the write to a running process delivers the frame
SendFrameEnd(ps, log, c) ==
    IF ps[c.pid].exited
    THEN [log |-> log, res |-> "IOError"]
    ELSE [log |-> LogAppend(log, c.frame, c.pid), res |-> "ok"]

\* --------------------------------------------- the Buffered priority queue

\* (frame_counter, frame) tuples compare by frame_counter; on a tie the frames
\* are compared: the same array object is equal to itself, two different
\* arrays compare elementwise and their truth value is a ValueError
CmpErr(a, b) == a.seq = b.seq /\ a.frame # b.frame
Lt(a, b) == a.seq < b.seq

\* the list with the items at i and j exchanged
Swap(heap, i, j) == [heap EXCEPT ![i] = heap[j], ![j] = heap[i]]

\* _siftdown(heap, startpos, pos) of the _heapq module, positions from 1: the
\* item at pos is exchanged with its parent while it is less; a comparison
\* that raises leaves the list as the exchanges so far made it
RECURSIVE SiftDown(_, _, _)
SiftDown(heap, startpos, pos) ==
    IF pos > startpos
    THEN LET parentpos == pos \div 2
         IN  IF CmpErr(heap[pos], heap[parentpos]) THEN [heap |-> heap, err |-> TRUE]
             ELSE IF Lt(heap[pos], heap[parentpos])
             THEN SiftDown(Swap(heap, pos, parentpos), startpos, parentpos)
             ELSE [heap |-> heap, err |-> FALSE]
    ELSE [heap |-> heap, err |-> FALSE]

\* _siftup(heap, pos) of the _heapq module, positions from 1: the item at pos
\* is exchanged with its smaller child down to a leaf, then sifted down
RECURSIVE SiftUp(_, _, _)
SiftUp(heap, startpos, pos) ==
    LET childpos == 2 * pos
        rightpos == childpos + 1
    IN  IF childpos <= Len(heap)
        THEN IF rightpos <= Len(heap) /\ CmpErr(heap[childpos], heap[rightpos])
             THEN [heap |-> heap, err |-> TRUE]
             ELSE LET c == IF rightpos <= Len(heap)
                                /\ ~Lt(heap[childpos], heap[rightpos])
                           THEN rightpos ELSE childpos
                  IN  SiftUp(Swap(heap, pos, c), startpos, c)
        ELSE SiftDown(heap, startpos, pos)

\* a put that appends without sifting, as a FIFO Queue.Queue would
QPutFifo(heap, item) == [heap |-> Append(heap, item), err |-> FALSE]

\* a put whose list update is lost when the list is not empty: the new item
\* overwrites the last one, as an unlocked append could
QPutRacy(heap, item) ==
    IF heap = <<>> THEN [heap |-> <<item>>, err |-> FALSE]
    ELSE [heap |-> [heap EXCEPT ![Len(heap)] = item], err |-> FALSE]

\* self.q.put(item): heapq.heappush under the queue's mutex
QPut(heap, item) == SiftDown(Append(heap, item), 1, Len(heap) + 1)

\* a get that takes the newest entry, as a Queue.LifoQueue would
QGetLifo(heap) ==
    [item |-> heap[Len(heap)], heap |-> SubSeq(heap, 1, Len(heap) - 1), err |-> FALSE]

\* self.q.get_nowait() on a non-empty queue: heapq.heappop under the mutex
QGet(heap) ==
    LET lastelt == heap[Len(heap)]
        rest == SubSeq(heap, 1, Len(heap) - 1)
    IN  IF rest = <<>>
        THEN [item |-> lastelt, heap |-> rest, err |-> FALSE]
        ELSE LET r == SiftUp([rest EXCEPT ![1] = lastelt], 1, 1)
             IN  [item |-> heap[1], heap |-> r.heap, err |-> r.err]

\* ------------------------------------------------- Buffered: threads

Producers == 1..NumProducers

\* the ticks that may start; a tick scheduled beyond them never starts
TickIds == 1..MaxTicks

\* a producer thread outside send_frame
IdleProducer == [pc |-> "idle", frame |-> Ones, fc |-> None, tmp |-> 0]

\* a tick waiting to start: threading.Timer(delay, ...) or, when the schedule
\* has fallen behind, threading.Thread(...), started at time t.  The local
\* next_event_time is <<>> until line 259 assigns it; held marks the thread
\* that the machine held up for a period or more
Timer(t, delay) ==
    [pc |-> "timer", via |-> "Timer", due |-> t + delay, start_time |-> None,
     got |-> "none", frame |-> Ones, seq |-> None, res |-> "none", tmp |-> None,
     next_event_time |-> <<>>, held |-> FALSE]
Thread(t) == [Timer(t, 0) EXCEPT !.via = "Thread"]

Init ==
    /\ procs = <<Popen>>
    /\ pipe = 1
    /\ sinkLog = <<>>
    /\ exitedScope = FALSE
    /\ outcome = [res |-> "none", dead |-> FALSE, reset |-> FALSE]
    /\ call = NoCall
    /\ user = NoReset(0)
    /\ lastframe = Ones
    /\ rpc = "init"
    /\ rframe = Ones
    /\ rtimers = 0
    /\ ctor = "running"
    /\ last_frame = Ones
    /\ next_send_time = None
    /\ frame_counter = 0
    /\ q = <<>>
    /\ ticks = <<Timer(0, 0)>>
    /\ prod = [p \in Producers |-> IdleProducer]
    /\ submitted = <<>>
    /\ now = 0

\* the processes that have exited
NumExited == Cardinality({i \in 1..Len(procs) : procs[i].exited})

\* every exit and every reset() of the user can launch one process: as many
\* of them are left as processes may still be launched
Spare == NumExited + user.n < MaxProcs - 1

\* the environment: sink process i exits with status s.  It is the process
\* self.pipe refers to, one launched by a reset() that has not stored it yet,
\* or one that a write is going to; if a write to it is under way, it may
\* have read a part of the frame
SinkExit ==
    \E i \in 1..Len(procs) :
        /\ ~procs[i].exited
        /\ Spare
        /\ \/ i = pipe
           \/ call.pc \in {"store", "write"} /\ call.pid = i
           \/ user.pc = "store" /\ user.newp = i
        /\ \E s \in ExitStatuses, t \in {None} \cup {call.frame.id} :
              /\ t # None => (Writing /\ call.pid = i)
              /\ procs' = [procs EXCEPT ![i] = [@ EXCEPT !.exited = TRUE,
                                                         !.status = s, !.torn = t]]
        /\ UNCHANGED <<pipe, sinkLog, exitedScope, outcome, call, user, repVars, bufVars>>

\* __exit__: the owning scope is left, by the thread that calls reset()
Exit ==
    /\ ~exitedScope
    /\ user.pc = "idle"
    /\ procs' = SendSigint(procs, pipe)
    /\ exitedScope' = TRUE
    /\ UNCHANGED <<pipe, sinkLog, outcome, call, user, repVars, bufVars>>

\* reset() called by the user of the stream, lines 67-72: the process
\* self.pipe refers to is sent SIGINT
ResetSignal ==
    /\ user.pc = "idle"
    /\ Spare
    /\ procs' = SendSigint(procs, pipe)
    /\ user' = [pc |-> "popen", newp |-> 0, n |-> user.n + 1]
    /\ UNCHANGED <<pipe, sinkLog, exitedScope, outcome, call, repVars, bufVars>>

\* that reset(), lines 74-147: sp.Popen launches the new process
ResetPopen ==
    /\ user.pc = "popen"
    /\ Len(procs) < MaxProcs
    /\ procs' = Launch(procs)
    /\ user' = [user EXCEPT !.pc = "store", !.newp = Len(procs) + 1]
    /\ UNCHANGED <<pipe, sinkLog, exitedScope, outcome, call, repVars, bufVars>>

\* that reset(), line 143: the new process is stored in self.pipe
ResetStore ==
    /\ user.pc = "store"
    /\ pipe' = user.newp
    /\ user' = NoReset(user.n)
    /\ UNCHANGED <<procs, sinkLog, exitedScope, outcome, call, repVars, bufVars>>

\* reset() of the user's thread, a step at a time
ResetCall == ResetSignal \/ ResetPopen \/ ResetStore

\* the reset() inside send_frame, lines 67-72, in the thread of that call
CallResetSignal ==
    /\ call.pc = "signal"
    /\ procs' = SendSigint(procs, pipe)
    /\ call' = [call EXCEPT !.pc = "popen"]
    /\ UNCHANGED <<pipe, sinkLog, exitedScope, outcome, user, repVars, bufVars>>

\* the reset() inside send_frame, lines 74-147
CallResetPopen ==
    /\ call.pc = "popen"
    /\ Len(procs) < MaxProcs
    /\ procs' = Launch(procs)
    /\ call' = [call EXCEPT !.pc = "store", !.pid = Len(procs) + 1]
    /\ UNCHANGED <<pipe, sinkLog, exitedScope, outcome, user, repVars, bufVars>>

\* the reset() inside send_frame, line 143, and its return to line 168
CallResetStore ==
    /\ call.pc = "store"
    /\ pipe' = call.pid
    /\ call' = [call EXCEPT !.pc = "assert", !.pid = 0]
    /\ outcome' = [outcome EXCEPT !.reset = TRUE]
    /\ UNCHANGED <<procs, sinkLog, exitedScope, user, repVars, bufVars>>

\* line 167 of the send_frame call under way, whichever thread runs it
CallReset == CallResetSignal \/ CallResetPopen \/ CallResetStore

\* ------------------------------------------------------- immediate stream

\* the frames a producer may pass to the immediate stream
ImmFrames == ProducerFrames \cup {Ones}

\* TwitchOutputStream.send_frame(f) called by the producer: the poll
ImmSendPoll(f) ==
    /\ call.pc = "none"
    /\ user.pc = "idle"
    /\ LET r == SendFramePoll(Pipe, f)
       IN  /\ call' = r.call
           /\ outcome' = r.outcome
    /\ UNCHANGED <<procs, pipe, sinkLog, exitedScope, user, repVars, bufVars>>

\* the assertion of that call, and the pipe its write goes to
ImmSendAssert ==
    /\ call.pc = "assert"
    /\ LET r == SendFrameAssert(call, pipe)
       IN  /\ call' = r.call
           /\ outcome' = [outcome EXCEPT !.res = r.res]
    /\ UNCHANGED <<procs, pipe, sinkLog, exitedScope, user, repVars, bufVars>>

\* the write of that call returns or raises
ImmSendEnd ==
    /\ Writing
    /\ LET r == SendFrameEnd(procs, sinkLog, call)
       IN  /\ sinkLog' = r.log
           /\ outcome' = [outcome EXCEPT !.res = r.res]
    /\ call' = NoCall
    /\ UNCHANGED <<procs, pipe, exitedScope, user, repVars, bufVars>>

\* the producer calls send_frame with any frame it may hand in
ImmSendFrame == \E f \in ImmFrames : ImmSendPoll(f)

\* the producer's thread also leaves the scope and calls reset(), between its
\* send_frame calls
NextImm ==
    \/ ImmSendFrame \/ CallReset \/ ImmSendAssert \/ ImmSendEnd
    \/ SinkExit
    \/ (call.pc = "none" /\ Exit)
    \/ (call.pc = "none" /\ ResetCall)

SpecImm == Init /\ [][NextImm]_vars

\* ------------------------------------------------------ repeater scheduler

\* _send_me_last_frame_again, line 191: the constructor's call or a fired
\* Timer enters the tick, which evaluates self.lastframe as the argument of
\* send_frame
RepTickBegin ==
    /\ \/ rpc = "init" /\ rtimers' = rtimers
       \/ rpc = "idle" /\ rtimers > 0 /\ rtimers' = rtimers - 1
    /\ rframe' = lastframe
    /\ rpc' = "sending"
    /\ UNCHANGED <<baseVars, lastframe, ctor, bufVars>>

\* the tick reads self.lastframe only when it polls
TickArgLate == lastframe

\* line 191: the argument of send_frame was evaluated when the call began
TickArg == rframe

\* TwitchOutputStream.send_frame with that argument: the poll
RepTickPoll ==
    /\ rpc = "sending"
    /\ call.pc = "none"
    /\ LET r == SendFramePoll(Pipe, TickArg)
       IN  /\ call' = r.call
           /\ outcome' = r.outcome
    /\ UNCHANGED <<procs, pipe, sinkLog, exitedScope, user, repVars, bufVars>>

\* the assertion of that call and the pipe its write goes to; an
\* AssertionError escapes the tick
RepTickAssert ==
    /\ rpc = "sending"
    /\ call.pc = "assert"
    /\ LET r == SendFrameAssert(call, pipe)
       IN  /\ call' = r.call
           /\ outcome' = [outcome EXCEPT !.res = r.res]
           /\ rpc' = IF r.res = "writing" THEN "sending" ELSE "crashed"
    /\ UNCHANGED <<procs, pipe, sinkLog, exitedScope, user, lastframe, rframe, rtimers,
                   ctor, bufVars>>

\* the Timer is started whether or not the write raised IOError
ReschedulesAlways(res) == res # "AssertionError"

\* the Timer is never started
ReschedulesNever(res) == FALSE

\* lines 192-199: the Timer of the next tick is started in the else branch of
\* the try, when send_frame raised nothing
Reschedules(res) == res = "ok"

\* the write returns or raises: IOError is swallowed and ends the loop,
\* success starts the Timer of the next tick; the constructor's call of the
\* tick is then back in __init__
RepTickWrite ==
    /\ rpc = "sending"
    /\ Writing
    /\ LET r == SendFrameEnd(procs, sinkLog, call)
       IN  /\ sinkLog' = r.log
           /\ outcome' = [outcome EXCEPT !.res = r.res]
           /\ rpc' = IF r.res = "ok" THEN "idle" ELSE "stopped"
           /\ rtimers' = IF Reschedules(r.res) THEN rtimers + 1 ELSE rtimers
    /\ call' = NoCall
    /\ ctor' = IF ctor = "running" THEN "returning" ELSE ctor
    /\ UNCHANGED <<procs, pipe, exitedScope, user, lastframe, rframe, bufVars>>

\* line 186 returns and with it __init__: the user has the stream
RepInitReturn ==
    /\ ctor = "returning"
    /\ ctor' = "returned"
    /\ UNCHANGED <<baseVars, lastframe, rpc, rframe, rtimers, bufVars>>

\* __init__ has returned
Constructed == ctor = "returned"

\* TwitchOutputStreamRepeater.send_frame(frame) called by the producer
RepSendFrame ==
    /\ Constructed
    /\ \E f \in ProducerFrames : lastframe' = f
    /\ UNCHANGED <<baseVars, rpc, rframe, rtimers, ctor, bufVars>>

\* the scope is left only after the constructor has returned
RepExit == Constructed /\ Exit

\* the inherited reset() called by the user
RepReset == Constructed /\ ResetCall

\* the tick of the Repeater, a step at a time
RepTick == RepTickBegin \/ RepTickPoll \/ CallReset \/ RepTickAssert \/ RepTickWrite

NextRep ==
    \/ RepTick \/ RepInitReturn
    \/ RepSendFrame
    \/ SinkExit \/ RepExit \/ RepReset

SpecRep == Init /\ [][NextRep]_vars

\* the Repeater whose producer never calls send_frame after construction
NextRepIdle ==
    \/ RepTick \/ RepInitReturn
    \/ SinkExit \/ RepExit \/ RepReset

\* with a producer that stays idle, the timer thread and the tick it runs are
\* always scheduled eventually
FairRepIdle ==
    /\ Init /\ [][NextRepIdle]_vars
    /\ WF_vars(RepTick)

\* ------------------------------------------------------ buffered scheduler

\* ticks that have called get_nowait so far
NumGot == Cardinality({k \in 1..Len(ticks) : ticks[k].pc \notin {"timer", "get"}})

\* the sequence numbers a caller may pass, None for the default
SeqNums == {None} \cup 0..MaxSeq

\* send_frame calls begun so far
NumCalls == Len(submitted) + Cardinality({p \in Producers : prod[p].pc # "idle"})

\* TwitchBufferedOutputStream.send_frame(frame, frame_counter=n), lines
\* 286-287, called with a new array of a shape in S and n in N: without a
\* number the call reads self.frame_counter
BufSendBegin(p, S, N) ==
    /\ prod[p].pc = "idle"
    /\ NumCalls < MaxSubmits
    /\ \E shape \in S, n \in N :
          prod' = [prod EXCEPT ![p] =
                     [pc |-> IF n = None THEN "load" ELSE "put",
                      frame |-> [id |-> NumCalls + 1, shape |-> shape],
                      fc |-> IF n = None THEN frame_counter ELSE n,
                      tmp |-> 0]]
    /\ UNCHANGED <<baseVars, repVars, last_frame, next_send_time, frame_counter,
                   q, ticks, submitted, now>>

\* self.frame_counter += 1, the read
BufSendLoad(p) ==
    /\ prod[p].pc = "load"
    /\ prod' = [prod EXCEPT ![p].pc = "store", ![p].tmp = frame_counter]
    /\ UNCHANGED <<baseVars, repVars, last_frame, next_send_time, frame_counter,
                   q, ticks, submitted, now>>

\* self.frame_counter += 1, the write
BufSendStore(p) ==
    /\ prod[p].pc = "store"
    /\ frame_counter' = prod[p].tmp + 1
    /\ prod' = [prod EXCEPT ![p].pc = "put"]
    /\ UNCHANGED <<baseVars, repVars, last_frame, next_send_time,
                   q, ticks, submitted, now>>

\* a put that also makes the new frame the last frame
BufSendPutLatching(p) ==
    /\ prod[p].pc = "put"
    /\ LET item == [seq |-> prod[p].fc, frame |-> prod[p].frame]
       IN  /\ q' = QPut(q, item).heap
           /\ submitted' = Append(submitted, [item |-> item, at |-> NumGot])
    /\ last_frame' = prod[p].frame
    /\ prod' = [prod EXCEPT ![p] = IdleProducer]
    /\ UNCHANGED <<baseVars, repVars, next_send_time, frame_counter, ticks, now>>

\* self.q.put((frame_counter, frame)); a ValueError of the comparison leaves
\* the heap as the sift left it and ends the call
BufSendPut(p) ==
    /\ prod[p].pc = "put"
    /\ LET item == [seq |-> prod[p].fc, frame |-> prod[p].frame]
       IN  /\ q' = QPut(q, item).heap
           /\ submitted' = Append(submitted, [item |-> item, at |-> NumGot])
    /\ prod' = [prod EXCEPT ![p] = IdleProducer]
    /\ UNCHANGED <<baseVars, repVars, last_frame, next_send_time, frame_counter,
                   ticks, now>>

\* line 232: the Timer or Thread of tick k runs and reads the clock
BufTickStart(k) ==
    /\ k <= Len(ticks)
    /\ ticks[k].pc = "timer"
    /\ now >= ticks[k].due
    /\ ticks' = [ticks EXCEPT ![k].pc = "get", ![k].start_time = now]
    /\ UNCHANGED <<baseVars, repVars, last_frame, next_send_time, frame_counter,
                   q, prod, submitted, now>>

\* line 234: self.q.get_nowait() takes the least entry of the queue, raises
\* Queue.Empty, or raises the ValueError of a comparison, which ends the
\* thread
BufTickGet(k) ==
    /\ k <= Len(ticks)
    /\ ticks[k].pc = "get"
    /\ IF q = <<>>
       THEN /\ ticks' = [ticks EXCEPT ![k].pc = "latch", ![k].got = "empty"]
            /\ q' = q
       ELSE LET r == QGet(q)
            IN  /\ q' = r.heap
                /\ IF r.err
                   THEN ticks' = [ticks EXCEPT ![k].pc = "crashed", ![k].got = "error"]
                   ELSE ticks' = [ticks EXCEPT ![k].pc = "latch",
                                               ![k].got = "item",
                                               ![k].frame = r.item.frame,
                                               ![k].seq = r.item.seq]
    /\ UNCHANGED <<baseVars, repVars, last_frame, next_send_time, frame_counter,
                   prod, submitted, now>>

\* the fallback always sends the neutral frame
FallbackOnes == Ones

\* lines 238-241: with nothing in the queue the candidate is self.last_frame
FallbackFrame == last_frame

\* lines 238-243: the entry taken becomes self.last_frame; with nothing taken
\* the tick falls back to self.last_frame
BufTickLatch(k) ==
    /\ k <= Len(ticks)
    /\ ticks[k].pc = "latch"
    /\ IF ticks[k].got = "item"
       THEN /\ last_frame' = ticks[k].frame
            /\ ticks' = [ticks EXCEPT ![k].pc = "poll"]
       ELSE /\ last_frame' = last_frame
            /\ ticks' = [ticks EXCEPT ![k].pc = "poll", ![k].frame = FallbackFrame]
    /\ UNCHANGED <<baseVars, repVars, next_send_time, frame_counter, q, prod,
                   submitted, now>>

\* the tick goes on to the scheduling block only after a successful write
AfterSendStopsOnFailure(res) == IF res = "ok" THEN "sched" ELSE "crashed"

\* the tick goes on to the scheduling block whatever send_frame raised
AfterSendCatchesAll(res) == "sched"

\* lines 245-252: where the tick goes after send_frame: the except clause
\* swallows IOError and the scheduling block follows the try statement; any
\* other exception ends the thread
AfterSend(res) == IF res = "AssertionError" THEN "crashed" ELSE "sched"

\* line 246: TwitchOutputStream.send_frame(frame) is called and polls
BufTickPoll(k) ==
    /\ k <= Len(ticks)
    /\ ticks[k].pc = "poll"
    /\ call.pc = "none"
    /\ LET r == SendFramePoll(Pipe, ticks[k].frame)
       IN  /\ call' = r.call
           /\ outcome' = r.outcome
    /\ ticks' = [ticks EXCEPT ![k].pc = "send"]
    /\ UNCHANGED <<procs, pipe, sinkLog, exitedScope, user, repVars, last_frame,
                   next_send_time, frame_counter, q, prod, submitted, now>>

\* the assertion of that call and the pipe its write goes to; an
\* AssertionError ends the thread
BufTickAssert(k) ==
    /\ k <= Len(ticks)
    /\ ticks[k].pc = "send"
    /\ call.pc = "assert"
    /\ LET r == SendFrameAssert(call, pipe)
       IN  /\ call' = r.call
           /\ outcome' = [outcome EXCEPT !.res = r.res]
           /\ ticks' = IF r.res = "writing" THEN ticks
                       ELSE [ticks EXCEPT ![k].res = r.res, ![k].pc = AfterSend(r.res)]
    /\ UNCHANGED <<procs, pipe, sinkLog, exitedScope, user, repVars, last_frame,
                   next_send_time, frame_counter, q, prod, submitted, now>>

\* lines 246-250: the write returns, or raises IOError, which is swallowed
BufTickWrite(k) ==
    /\ k <= Len(ticks)
    /\ ticks[k].pc = "send"
    /\ Writing
    /\ LET r == SendFrameEnd(procs, sinkLog, call)
       IN  /\ sinkLog' = r.log
           /\ outcome' = [outcome EXCEPT !.res = r.res]
           /\ ticks' = [ticks EXCEPT ![k].res = r.res, ![k].pc = AfterSend(r.res)]
    /\ call' = NoCall
    /\ UNCHANGED <<procs, pipe, exitedScope, user, repVars, last_frame, next_send_time,
                   frame_counter, q, prod, submitted, now>>

\* line 253: if self.next_send_time is None
BufTickSched(k) ==
    /\ k <= Len(ticks)
    /\ ticks[k].pc = "sched"
    /\ ticks' = [ticks EXCEPT ![k].pc = IF next_send_time = None THEN "first" ELSE "load"]
    /\ UNCHANGED <<baseVars, repVars, last_frame, next_send_time, frame_counter,
                   q, prod, submitted, now>>

\* lines 254-255: a tick that found None starts the Timer of the next tick
\* before it assigns next_send_time
BufTickFirst(k) ==
    /\ k <= Len(ticks)
    /\ ticks[k].pc = "first"
    /\ ticks' = Append([ticks EXCEPT ![k].pc = "assign"], Timer(now, Period))
    /\ UNCHANGED <<baseVars, repVars, last_frame, next_send_time, frame_counter,
                   q, prod, submitted, now>>

\* line 256: self.next_send_time = start_time + 1./self.fps
BufTickAssign(k) ==
    /\ k <= Len(ticks)
    /\ ticks[k].pc = "assign"
    /\ next_send_time' = ticks[k].start_time + Period
    /\ ticks' = [ticks EXCEPT ![k].pc = "done"]
    /\ UNCHANGED <<baseVars, repVars, last_frame, frame_counter, q, prod,
                   submitted, now>>

\* line 258, the read of self.next_send_time += 1./self.fps
BufTickLoad(k) ==
    /\ k <= Len(ticks)
    /\ ticks[k].pc = "load"
    /\ ticks' = [ticks EXCEPT ![k].pc = "store", ![k].tmp = next_send_time + Period]
    /\ UNCHANGED <<baseVars, repVars, last_frame, next_send_time, frame_counter,
                   q, prod, submitted, now>>

\* line 258, the write of self.next_send_time += 1./self.fps
BufTickStore(k) ==
    /\ k <= Len(ticks)
    /\ ticks[k].pc = "store"
    /\ next_send_time' = ticks[k].tmp
    /\ ticks' = [ticks EXCEPT ![k].pc = "compute", ![k].tmp = None]
    /\ UNCHANGED <<baseVars, repVars, last_frame, frame_counter, q, prod,
                   submitted, now>>

\* the right-hand side of line 259: self.next_send_time as it is now, less
\* the start_time of line 232
NextEventTime(k) == next_send_time - ticks[k].start_time

\* line 259: next_event_time = self.next_send_time - start_time
BufTickCompute(k) ==
    /\ k <= Len(ticks)
    /\ ticks[k].pc = "compute"
    /\ ticks' = [ticks EXCEPT ![k].pc = "delay",
                              ![k].next_event_time = <<NextEventTime(k)>>]
    /\ UNCHANGED <<baseVars, repVars, last_frame, next_send_time, frame_counter,
                   q, prod, submitted, now>>

\* a tick that is behind waits a whole period for the next one
NextTickAfterPeriod(t, next_event_time) ==
    IF next_event_time > 0 THEN Timer(t, next_event_time) ELSE Timer(t, Period)

\* lines 260-272: the thread of the next tick, created at time t: a Timer if
\* next_event_time is positive, else a Thread that runs at once
NextTick(t, next_event_time) ==
    IF next_event_time > 0 THEN Timer(t, next_event_time) ELSE Thread(t)

\* lines 260-272: the next tick is started with the local next_event_time;
\* the tick is then inside start(), which returns when the new thread has
\* begun to run
BufTickDelay(k) ==
    /\ k <= Len(ticks)
    /\ ticks[k].pc = "delay"
    /\ ticks' = Append([ticks EXCEPT ![k].pc = "return"],
                       NextTick(now, ticks[k].next_event_time[1]))
    /\ UNCHANGED <<baseVars, repVars, last_frame, next_send_time, frame_counter,
                   q, prod, submitted, now>>

\* start() of lines 262 and 272 returns, and with it the tick
BufTickReturn(k) ==
    /\ k <= Len(ticks)
    /\ ticks[k].pc = "return"
    /\ ticks' = [ticks EXCEPT ![k].pc = "done"]
    /\ UNCHANGED <<baseVars, repVars, last_frame, next_send_time, frame_counter,
                   q, prod, submitted, now>>

\* one step of the thread of tick k; the reset() of its send_frame call is
\* CallReset
BufTick(k) ==
    \/ BufTickStart(k) \/ BufTickGet(k) \/ BufTickLatch(k)
    \/ BufTickPoll(k) \/ BufTickAssert(k) \/ BufTickWrite(k)
    \/ BufTickSched(k) \/ BufTickFirst(k) \/ BufTickAssign(k)
    \/ BufTickLoad(k) \/ BufTickStore(k) \/ BufTickCompute(k) \/ BufTickDelay(k)
    \/ BufTickReturn(k)

\* one step of producer thread p in send_frame, called with a shape in S and
\* a number in N
BufSend(p, S, N) ==
    \/ BufSendBegin(p, S, N)
    \/ BufSendLoad(p) \/ BufSendStore(p) \/ BufSendPut(p)

\* time passes
Advance ==
    /\ now < MaxTime
    /\ now' = now + 1
    /\ UNCHANGED <<baseVars, repVars, last_frame, next_send_time, frame_counter,
                   q, ticks, prod, submitted>>

\* time passes on a machine that keeps up: no tick is running and no Timer
\* is due, and the clock goes on to the time the next Timer is due
AdvanceOnTime ==
    /\ \A k \in 1..Len(ticks) :
          \/ ticks[k].pc \in {"done", "crashed"}
          \/ ticks[k].pc = "timer" /\ ticks[k].due > now
    /\ \E k \in 1..Len(ticks) :
          /\ ticks[k].pc = "timer" /\ ticks[k].due <= MaxTime
          /\ \A j \in 1..Len(ticks) : ticks[j].pc = "timer" => ticks[k].due <= ticks[j].due
          /\ now' = ticks[k].due
    /\ UNCHANGED <<baseVars, repVars, last_frame, next_send_time, frame_counter,
                   q, ticks, prod, submitted>>

NextBuf ==
    \/ \E p \in Producers : BufSend(p, {FrameShape}, SeqNums)
    \/ \E k \in TickIds : BufTick(k)
    \/ AdvanceOnTime

\* the Buffered scheduler with producer threads handing in well-shaped frames,
\* on a machine that keeps up, while the sink process runs and the stream is
\* neither reset nor left: no poll is true, and send_frame never calls reset()
SpecBuf == Init /\ [][NextBuf]_vars

\* the Buffered scheduler whose sink process may exit at any moment and whose
\* stream may be reset and left, with one producer thread that passes no
\* sequence number
NextSink ==
    \/ BufSend(1, {FrameShape}, {None})
    \/ \E k \in TickIds : BufTick(k)
    \/ CallReset
    \/ AdvanceOnTime
    \/ SinkExit \/ Exit \/ ResetCall

SpecSink == Init /\ [][NextSink]_vars

\* no thread of a Buffered scheduler has taken a step
BufPristine ==
    /\ ticks = <<Timer(0, 0)>> /\ submitted = <<>> /\ now = 0
    /\ \A p \in Producers : prod[p] = IdleProducer

\* the object constructed is either a Repeater or a Buffered scheduler: the
\* steps of one class are taken only while the other has taken none
NextSched == (BufPristine /\ NextRep) \/ (rpc = "init" /\ NextBuf)

SpecSched == Init /\ [][NextSched]_vars

\* the Buffered scheduler with one producer thread that hands in frames of
\* any shape, without sequence numbers, and a sink process that may exit
NextBufShapes ==
    \/ BufSend(1, {FrameShape, BadShape}, {None})
    \/ \E k \in TickIds : BufTick(k)
    \/ CallReset
    \/ AdvanceOnTime
    \/ SinkExit

\* a Repeater or a Buffered scheduler, with a producer of frames of any shape
NextShapes == (BufPristine /\ NextRep) \/ (rpc = "init" /\ NextBufShapes)

SpecShapes == Init /\ [][NextShapes]_vars

\* the Buffered scheduler with no producer, on a machine where any amount of
\* time may pass between any two steps of the tick threads
NextTimed ==
    \/ \E k \in TickIds : BufTick(k)
    \/ Advance

SpecTimed == Init /\ [][NextTimed]_vars

\* the ticks that may start, and the clock range, when one tick is held up
LagTickIds == 1..(MaxLateTick + MaxStall + 3)
LagClock == MaxLateTick * Period + MaxStall + 3 * Period

\* tick k started after the time its Timer or Thread was due
StartedLate(k) ==
    k \in 1..Len(ticks) /\ ticks[k].pc # "timer" /\ ticks[k].start_time > ticks[k].due

\* the ticks that were held up
Held == {k \in 1..Len(ticks) : ticks[k].held}

\* the ticks that have not returned and will not have returned within a
\* period of the time they were due, once the clock goes on by a unit
Overdue ==
    {k \in LagTickIds \cap (1..Len(ticks)) :
        /\ ticks[k].pc \notin {"done", "crashed"}
        /\ now + 1 - ticks[k].due >= Period}

\* time passes by a clock unit, before a thread starts or between any two
\* steps of the threads inside the function.  Every tick has returned within
\* less than a period of the time it was due, but for one of the first
\* MaxLateTick ticks, which the machine holds up, before it starts or at any
\* line, for up to MaxStall units
LagAdvance ==
    /\ now < LagClock
    /\ now' = now + 1
    /\ Cardinality(Overdue \cup Held) <= 1
    /\ \A k \in Overdue : k <= MaxLateTick /\ now + 1 - ticks[k].due <= MaxStall
    /\ ticks' = [k \in 1..Len(ticks) |->
                    IF k \in Overdue THEN [ticks[k] EXCEPT !.held = TRUE] ELSE ticks[k]]
    /\ UNCHANGED <<baseVars, repVars, last_frame, next_send_time, frame_counter,
                   q, prod, submitted>>

\* one step of a tick thread
TickStep == \E k \in LagTickIds : BufTick(k)

NextLag == TickStep \/ LagAdvance

\* the Buffered scheduler with no producer, where one tick is held up and
\* every other tick takes less than a period, overlapping its predecessor or
\* not; a thread that can run does run, and time does pass
FairLag == Init /\ [][NextLag]_vars /\ WF_vars(TickStep) /\ WF_vars(LagAdvance)

\* ------------------------------------------------- Buffered: what was emitted

\* tick k has started
Started(k) == k \in 1..Len(ticks) /\ ticks[k].pc # "timer"

\* tick k has called get_nowait
Got(k) == k \in 1..Len(ticks) /\ ticks[k].got # "none"

\* tick k took an entry from the queue
Popped(k) == k \in 1..Len(ticks) /\ ticks[k].got = "item"

\* tick k found the queue empty and repeats last_frame
Fallback(k) == k \in 1..Len(ticks) /\ ticks[k].got = "empty"

\* tick k has got its candidate frame and is past lines 238-243
Latched(k) ==
    k \in 1..Len(ticks) /\ ticks[k].pc \notin {"timer", "get", "latch"}
                        /\ ticks[k].got \in {"item", "empty"}

\* tick k is past its send_frame call
Sent(k) == k \in 1..Len(ticks) /\ ticks[k].res # "none"

\* the frames the first k ticks wrote to the sink, in tick order
RECURSIVE WritesUpTo(_)
WritesUpTo(k) ==
    IF k = 0 THEN <<>>
    ELSE IF ticks[k].res = "ok" THEN Append(WritesUpTo(k - 1), ticks[k].frame.id)
    ELSE WritesUpTo(k - 1)

\* the frames in the sink log
LogFrames == [i \in 1..Len(sinkLog) |-> sinkLog[i].frame]

\* what the sink received is what the ticks wrote, one write per tick
LogMatchesTicks ==
    Len(WritesUpTo(Len(ticks))) <= MaxLog => LogFrames = WritesUpTo(Len(ticks))

\* the submitted sequence numbers are pairwise distinct
DistinctSeqs ==
    \A i, j \in 1..Len(submitted) :
        i # j => submitted[i].item.seq # submitted[j].item.seq

\* every entry was put before the first tick called get_nowait
AllBeforeFirstTick == \A i \in 1..Len(submitted) : submitted[i].at = 0

\* the submitted entry with the r-th smallest sequence number
OfRank(r) ==
    LET i == CHOOSE i \in 1..Len(submitted) :
                 Cardinality({j \in 1..Len(submitted) :
                     submitted[j].item.seq < submitted[i].item.seq}) = r - 1
    IN  submitted[i].item

\* the submission of the frame that tick k popped
SubmissionOf(k) ==
    CHOOSE i \in 1..Len(submitted) : submitted[i].item.frame = ticks[k].frame

\* ---------------------------------------------------------------- claims

\* C1: frames with pairwise distinct sequence numbers that are all submitted
\* before the first tick starts are emitted one per tick in ascending order of
\* sequence number, whatever the arrival order; every later tick repeats the
\* frame with the highest number (until a new frame is submitted); while the
\* sink runs every tick's write succeeds and the sink receives the frames of
\* the ticks in tick order.
C1_AscendingEmission ==
    (DistinctSeqs /\ AllBeforeFirstTick) =>
        /\ \A k \in 1..Len(ticks) :
              Got(k) =>
                  IF k <= Len(submitted)
                  THEN /\ Popped(k)
                       /\ ticks[k].seq = OfRank(k).seq
                       /\ ticks[k].frame = OfRank(k).frame
                  ELSE /\ Fallback(k)
                       /\ Latched(k) =>
                              ticks[k].frame = IF submitted = <<>> THEN Ones
                                               ELSE OfRank(Len(submitted)).frame
        /\ \A k \in 1..Len(ticks) : Sent(k) => ticks[k].res = "ok"
        /\ LogMatchesTicks

\* C1 witness: arrival order 2, 0, 1 before the first tick, emitted 0, 1, 2 to
\* the sink, and a fourth tick repeating frame 2
C1_Witness ==
    /\ Len(submitted) = 3 /\ AllBeforeFirstTick
    /\ submitted[1].item.seq = 2 /\ submitted[2].item.seq = 0
    /\ submitted[3].item.seq = 1
    /\ Len(ticks) >= 4 /\ ticks[4].pc = "sched"
    /\ LogFrames = <<2, 3, 1, 1>>

\* C2 as claimed: the popped sequence numbers are non-decreasing in emission
\* order over every interleaving of submissions and ticks.
C2_PoppedNonDecreasing ==
    \A i, j \in 1..Len(ticks) :
        (i < j /\ Popped(i) /\ Popped(j)) => ticks[i].seq <= ticks[j].seq

\* C2 amended: a popped frame has a lower sequence number than a frame popped
\* before it only if it was put into the queue after that earlier pop; among
\* the entries present in the queue a pop always takes the least.
C2_InversionOnlyByLateSubmit ==
    /\ \A i, j \in 1..Len(ticks) :
          (i < j /\ Popped(i) /\ Popped(j) /\ ticks[i].seq > ticks[j].seq)
              => submitted[SubmissionOf(j)].at >= i
    /\ \A k \in 1..Len(ticks), e \in 1..Len(q) :
          Popped(k) =>
              \/ ticks[k].seq <= q[e].seq
              \/ \E i \in 1..Len(submitted) :
                    submitted[i].item = q[e] /\ submitted[i].at >= k

\* C2 witness: two frames were popped, the second with the higher number
\* although it arrived first
C2_Witness ==
    /\ Len(ticks) >= 2 /\ Popped(1) /\ Popped(2)
    /\ ticks[1].seq < ticks[2].seq
    /\ SubmissionOf(2) < SubmissionOf(1)
    /\ submitted[SubmissionOf(1)].at = 0

\* the frame of the last of the first k ticks that popped one and made it
\* last_frame, else the initial frame
RECURSIVE LastPopped(_)
LastPopped(k) ==
    IF k = 0 THEN Ones
    ELSE IF Popped(k) /\ Latched(k) THEN ticks[k].frame
    ELSE LastPopped(k - 1)

\* C3: a tick that finds the queue empty emits the current last_frame, which
\* is the most recently popped frame or the initial all-ones frame, and leaves
\* last_frame as it was; every such tick whose write succeeds is one sink
\* write of that frame.
C3_EmptyQueueRepeatsLastFrame ==
    /\ [](\A k \in 1..Len(ticks) :
             (Fallback(k) /\ Latched(k)) => ticks[k].frame = LastPopped(k - 1))
    /\ [](last_frame = LastPopped(Len(ticks)))
    /\ [](LogMatchesTicks)
    /\ [][\A k \in TickIds :
             /\ (BufTickGet(k) /\ q = <<>>) => UNCHANGED <<q, last_frame>>
             /\ (BufTickLatch(k) /\ ticks[k].got = "empty") =>
                    /\ UNCHANGED <<q, last_frame>>
                    /\ ticks'[k].frame = last_frame]_vars

\* C3 witness: one popped frame, then two ticks with nothing submitted, three
\* sink writes of that frame
C3_Witness ==
    /\ Len(ticks) >= 3 /\ Popped(1) /\ Fallback(2) /\ Fallback(3)
    /\ Len(submitted) = 1 /\ q = <<>>
    /\ LogFrames = <<1, 1, 1>>

\* the entries submitted, popped, and in the queue
SubmittedItems == {submitted[i].item : i \in 1..Len(submitted)}
PoppedTicks == {k \in 1..Len(ticks) : Popped(k)}
PoppedItems == {[seq |-> ticks[k].seq, frame |-> ticks[k].frame] : k \in PoppedTicks}
QItems == {q[i] : i \in 1..Len(q)}

\* C4: with pairwise distinct sequence numbers, over every interleaving of
\* the producer threads' send_frame calls and the ticks, the queue holds
\* exactly the submitted entries not yet popped, each once, and no entry is
\* popped twice.
C4_NoFrameLostOrDuplicated ==
    DistinctSeqs =>
        /\ QItems = SubmittedItems \ PoppedItems
        /\ Len(q) = Cardinality(QItems)
        /\ PoppedItems \subseteq SubmittedItems
        /\ Cardinality(PoppedItems) = Cardinality(PoppedTicks)

\* C4 witness: the call that began second has put its frame while the first
\* call is still under way, a tick has popped it, and the first call's frame
\* arrives in the queue afterwards
C4_Witness ==
    /\ Len(submitted) = 2 /\ DistinctSeqs
    /\ submitted[1].item.frame.id = 2 /\ submitted[1].at = 0
    /\ submitted[2].item.frame.id = 1 /\ submitted[2].at = 1
    /\ Popped(1) /\ Len(q) = 1

\* the last write in the sink log
LastWrite == sinkLog[Len(sinkLog)]

\* C5: the Repeater is last-value-wins.  A tick takes the frame most recently
\* supplied by send_frame when it begins (the initial frame if none) and that
\* is the frame it writes, whole or in part; a send_frame call during the
\* tick changes neither what the tick writes nor the sink, and only ticks
\* write to the sink.
C5_LastValueWins ==
    [][/\ (rpc # "sending" /\ rpc' = "sending") => rframe' = lastframe
       /\ rframe' # rframe => (rpc # "sending" /\ rpc' = "sending")
       /\ sinkLog' # sinkLog =>
              /\ rpc = "sending" /\ Writing /\ rpc' = "idle"
              /\ LastWrite'.frame = rframe.id
              /\ lastframe' = lastframe
       /\ \A i \in 1..Len(procs) :
              procs'[i].torn # procs[i].torn =>
                  (rpc = "sending" /\ Writing /\ procs'[i].torn = rframe.id)
       /\ lastframe' # lastframe =>
              /\ sinkLog' = sinkLog
              /\ rpc' = rpc /\ rtimers' = rtimers]_vars

\* C5 witness: a frame was supplied while a tick was under way, the tick has
\* written the frame it began with, and the new frame waits for the next tick
C5_Witness ==
    /\ rpc = "idle" /\ rtimers = 1
    /\ sinkLog # <<>> /\ LastWrite.frame = rframe.id
    /\ rframe.id = 1 /\ lastframe.id = 2

\* C6: if no sink write ever fails and the producer never calls send_frame
\* (as FairRepIdle has it), then under fair scheduling of the timer threads
\* ticks occur infinitely often and each writes the initial all-ones frame.
C6_RepeaterNeverStarves ==
    [](rpc # "stopped") =>
        /\ []<>(rpc = "sending")
        /\ []<>(rpc = "idle" /\ sinkLog # <<>> /\ LastWrite.frame = Ones.id)
        /\ [](\A i \in 1..Len(sinkLog) : sinkLog[i].frame = Ones.id)

\* C6 witness: more ticks than the log holds have written the initial frame
\* and the next one is under way
C6_Witness ==
    /\ lastframe = Ones /\ rpc = "sending"
    /\ Len(sinkLog) = MaxLog /\ sinkLog[1].n # 0
    /\ \A i \in 1..Len(sinkLog) : sinkLog[i].frame = Ones.id

\* C7: a Repeater tick whose write succeeds starts exactly one Timer; a tick
\* whose write raises IOError starts none, and from then on no tick runs and
\* nothing is written to the sink.
C7_RepeaterStopsOnSinkClosed ==
    [][/\ (rpc = "sending" /\ rpc' # "sending" /\ outcome'.res = "ok") =>
              (rpc' = "idle" /\ rtimers = 0 /\ rtimers' = 1)
       /\ (rpc = "sending" /\ rpc' # "sending" /\ outcome'.res = "IOError") =>
              (rpc' = "stopped" /\ rtimers' = 0 /\ sinkLog' = sinkLog)
       /\ rpc = "stopped" =>
              /\ rpc' = "stopped" /\ rtimers' = 0 /\ sinkLog' = sinkLog
              /\ call' = NoCall
              /\ \A i \in 1..Len(procs) : procs'[i].torn = procs[i].torn]_vars

\* C7 witness: ticks wrote to the sink, then a write failed and the loop has
\* stopped with no Timer pending
C7_Witness ==
    /\ rpc = "stopped" /\ rtimers = 0 /\ outcome.res = "IOError"
    /\ Len(sinkLog) >= 2

\* C8 as claimed: a Buffered tick whose sink write failed with IOError
\* schedules no successor, so no later tick exists.
C8_BufferedStopsOnSinkClosed ==
    \A k \in 1..Len(ticks) : ticks[k].res = "IOError" => Len(ticks) = k

\* C9 as claimed: once the scope has been left and the sink process has
\* exited, a Repeater tick that found it so is the last: it starts no Timer
\* and writes nothing.
C9_RepeaterShutsDownOnNextTick ==
    [][(rpc = "sending" /\ Writing /\ rpc' # "sending" /\ exitedScope /\ outcome.dead) =>
           (rpc' = "stopped" /\ rtimers' = 0 /\ sinkLog' = sinkLog)]_vars

\* C10 as claimed: a send_frame call that begins when the sink process has
\* exited, with whatever status, calls reset() before it writes.
C10_ResetWheneverSinkExited ==
    (outcome.dead /\ outcome.res \in {"writing", "ok", "IOError"}) => outcome.reset

\* C11 as claimed: a call with a wrongly shaped frame raises AssertionError
\* and writes nothing; a call with a well-shaped frame writes exactly one
\* frame to the sink.
C11_BadShapeRaisesGoodShapeWrites ==
    [][/\ \A f \in ImmFrames : ImmSendPoll(f) => (sinkLog' = sinkLog /\ call'.frame = f)
       /\ CallReset => (sinkLog' = sinkLog /\ call'.frame = call.frame)
       /\ ImmSendAssert =>
              /\ sinkLog' = sinkLog
              /\ IF call.frame.shape # FrameShape
                 THEN outcome'.res = "AssertionError" /\ call' = NoCall
                 ELSE Writing' /\ call'.frame = call.frame
       /\ ImmSendEnd => sinkLog' = LogAppend(sinkLog, call.frame, call.pid)
       /\ sinkLog' # sinkLog => ImmSendEnd]_vars

\* C11 amended: a call with a wrongly shaped frame raises AssertionError and
\* nothing of it reaches the sink; a call with a well-shaped frame either
\* returns after writing exactly that one frame to the process it found or
\* launched, or raises IOError: then no whole frame was written, and the
\* process that exited may have read a part of that frame.
C11_BadShapeRaisesGoodShapeWritesOrFails ==
    [][/\ \A f \in ImmFrames : ImmSendPoll(f) => (sinkLog' = sinkLog /\ call'.frame = f)
       /\ CallReset => (sinkLog' = sinkLog /\ call'.frame = call.frame)
       /\ ImmSendAssert =>
              /\ sinkLog' = sinkLog
              /\ IF call.frame.shape # FrameShape
                 THEN outcome'.res = "AssertionError" /\ call' = NoCall
                 ELSE Writing' /\ call'.frame = call.frame /\ call'.pid = pipe
       /\ ImmSendEnd =>
              \/ /\ outcome'.res = "ok"
                 /\ sinkLog' = LogAppend(sinkLog, call.frame, call.pid)
              \/ /\ outcome'.res = "IOError" /\ sinkLog' = sinkLog
                 /\ procs[call.pid].exited
       /\ sinkLog' # sinkLog => ImmSendEnd
       /\ \A i \in 1..Len(procs) :
              procs'[i].torn # procs[i].torn =>
                  /\ Writing /\ call.pid = i /\ call.frame.shape = FrameShape
                  /\ procs'[i].torn = call.frame.id /\ procs'[i].exited]_vars

\* C11 witness: a frame was written, the write of the next raised IOError
\* after the sink process had read a part of it, and then a call with a
\* wrongly shaped frame has raised AssertionError after a reset
C11_Witness ==
    /\ outcome.res = "AssertionError" /\ outcome.reset
    /\ Len(sinkLog) = 1 /\ sinkLog[1].pid = 1
    /\ procs[1].torn # None /\ procs[1].torn # sinkLog[1].frame

\* C12 as claimed: __exit__ calls send_signal(SIGINT) on the sink process once,
\* and over any sequence of sends, resets and the scope exit no sink process
\* is sent SIGINT a second time.
C12_SigintAtMostOnce ==
    /\ \A i \in 1..Len(procs) : procs[i].sigints <= 1
    /\ exitedScope => \E i \in 1..Len(procs) : procs[i].sigints >= 1

\* the ticks that have started the thread of their successor
Scheduled == {k \in 1..Len(ticks) : ticks[k].pc \in {"assign", "return", "done"}}

\* C13: a Buffered tick whose forwarding succeeded or raised IOError goes on
\* to the scheduling block and ends having started exactly one successor, a
\* Timer or a Thread; so every tick but the first was started by exactly one
\* earlier tick, and a tick that ended after a sink failure has a successor.
C13_BufferedAlwaysReschedules ==
    /\ \A k \in 1..Len(ticks) :
          ticks[k].res \in {"ok", "IOError"} =>
              ticks[k].pc \in {"sched", "first", "assign", "load", "store", "compute",
                              "delay", "return", "done"}
    /\ Len(ticks) = 1 + Cardinality(Scheduled)
    /\ \A k \in Scheduled : k < Len(ticks) /\ ticks[k + 1].via \in {"Timer", "Thread"}

\* C13 witness: the second tick's write raised IOError, it ended, and the
\* third tick it scheduled has run and failed and scheduled a fourth
C13_Witness ==
    /\ Len(ticks) = 4
    /\ ticks[1].res = "ok"
    /\ ticks[2].res = "IOError" /\ ticks[2].pc = "done"
    /\ ticks[3].res = "IOError" /\ ticks[3].pc = "done"

\* start_time of the first tick
T0 == ticks[1].start_time

\* the first k ticks have ended and tick k + 1 has not yet written
\* next_send_time
AfterTick(k) ==
    /\ \A j \in 1..k : ticks[j].pc = "done"
    /\ k < Len(ticks) =>
           ticks[k + 1].pc \in {"timer", "get", "latch", "poll", "send", "sched", "first",
                                "assign", "load", "store", "crashed"}

\* C14 as claimed: after the k-th tick next_send_time is t0 + k/fps, whatever
\* the start times and durations of the ticks were.
C14_NextSendTimeOnCadence ==
    \A k \in 1..Len(ticks) : AfterTick(k) => next_send_time = T0 + k * Period

\* C15 as claimed: on every tick after the first, the Timer of the next tick
\* is given the delay next_send_time - now, so that a tick scheduled with a
\* positive delay is due at next_send_time.
C15_DelayFromNow ==
    [][\A k \in TickIds :
          (BufTickDelay(k) /\ ticks[k].next_event_time[1] > 0) =>
              ticks'[Len(ticks')].due = next_send_time]_vars

\* the ticks that are executing _send_me_last_frame_again
Executing ==
    {k \in 1..Len(ticks) :
        ticks[k].pc \in {"get", "latch", "poll", "send", "sched", "first", "assign",
                          "load", "store", "compute", "delay", "return"}}

\* C17 as claimed: at most one tick is executing in every reachable state.
C17_OneTickAtATime == Cardinality(Executing) <= 1

\* the predecessor of tick m has executed line 259 and found
\* self.next_send_time, as it then was, no later than its own start_time
Behind(m) ==
    /\ ticks[m - 1].next_event_time # <<>>
    /\ ticks[m - 1].next_event_time[1] <= 0

\* tick p started when the tick j that was held up was a period or more past
\* its due time, and it computed a positive delay at line 259
OnTimeAfter(j, p) ==
    /\ ticks[p].start_time # None
    /\ ticks[p].start_time >= ticks[j].due + Period
    /\ ticks[p].next_event_time # <<>>
    /\ ticks[p].next_event_time[1] > 0

\* after a tick was held up, a tick has found the schedule ahead of it again
CaughtUp == \E j \in Held : \E p \in j..Len(ticks) : OnTimeAfter(j, p)

\* C16: a tick whose computed delay is <= 0 ends by starting the next tick at
\* once on a new Thread, never by a Timer and never by calling itself,
\* otherwise by a Timer with that delay; a tick is started by Thread exactly
\* when its predecessor found next_send_time no later than its start time;
\* and when one tick is held up for a period or more, before it starts or at
\* any line, and every other tick returns within less than a period of its
\* due time, overlapping its predecessor or not, a later tick eventually
\* computes a positive delay again.
C16_OverloadCatchUp ==
    /\ [][\A k \in LagTickIds :
             BufTickDelay(k) =>
                 LET next == ticks'[Len(ticks')]
                 IN  /\ ticks'[k].pc = "return" /\ Len(ticks') = Len(ticks) + 1
                     /\ next.pc = "timer"
                     /\ IF ticks[k].next_event_time[1] <= 0
                        THEN next.via = "Thread" /\ next.due = now
                        ELSE /\ next.via = "Timer"
                             /\ next.due = now + ticks[k].next_event_time[1]]_vars
    /\ [](\A m \in 2..Len(ticks) : ticks[m].via = "Thread" <=> Behind(m))
    /\ ((Held # {}) ~> CaughtUp)

\* C16 witness: the second tick started late after being held up, the third
\* and fourth ticks were started back-to-back on new Threads, the fourth
\* began a clock unit after the third and computed a positive delay, so the
\* fifth is by Timer; the third and fourth are both still inside start()
C16_Witness ==
    /\ Len(ticks) = 5
    /\ Held = {2} /\ StartedLate(2)
    /\ ticks[3].via = "Thread" /\ ticks[4].via = "Thread" /\ ticks[5].via = "Timer"
    /\ ticks[3].pc = "return" /\ ticks[4].pc = "return"
    /\ ticks[4].start_time > ticks[3].start_time
    /\ OnTimeAfter(2, 4)

\* a step of a producer-side send_frame call of the Buffered scheduler
BufProducerStep == \E p \in Producers : BufSend(p, {FrameShape}, SeqNums)

\* C18 as claimed: a producer-side send_frame call of either scheduler leaves
\* the last frame, next_send_time and frame_counter unchanged.
C18_ProducerWritesNothing ==
    [][(RepSendFrame \/ BufProducerStep) =>
           UNCHANGED <<lastframe, last_frame, next_send_time, frame_counter>>]_vars

\* C18 amended: in the Buffered scheduler last_frame and next_send_time are
\* written only by ticks and a producer-side call leaves them unchanged, while
\* frame_counter is written only by producer-side calls and never by a tick;
\* in the Repeater lastframe is written only by the producer-side send_frame
\* and never by a tick.
C18_Ownership ==
    [][/\ BufProducerStep => UNCHANGED <<last_frame, next_send_time>>
       /\ last_frame' # last_frame => \E k \in TickIds : BufTickLatch(k)
       /\ next_send_time' # next_send_time =>
              \E k \in TickIds : BufTickAssign(k) \/ BufTickStore(k)
       /\ frame_counter' # frame_counter => \E p \in Producers : BufSendStore(p)
       /\ ticks' # ticks => frame_counter' = frame_counter
       /\ lastframe' # lastframe => RepSendFrame
       /\ rpc' # rpc => lastframe' = lastframe]_vars

\* C18 witness: two producer calls without a number have advanced
\* frame_counter, one of them is still under way, and ticks have replaced
\* last_frame and assigned next_send_time
C18_Witness ==
    /\ frame_counter = 2
    /\ \E p \in Producers : prod[p].pc = "put"
    /\ last_frame # Ones
    /\ next_send_time # None

\* the producers inside a send_frame call that was given no sequence number
\* and has not yet written frame_counter
AutoNumbering == {p \in Producers : prod[p].pc \in {"load", "store"}}

\* C19 as claimed: calls without a sequence number made by several producer
\* threads are each assigned the then-current frame_counter and increment it:
\* no two of them are assigned the same number and no increment is lost; a
\* call with an explicit number leaves frame_counter unchanged.
C19_AutoNumbersDistinct ==
    /\ [](\A p1, p2 \in AutoNumbering : p1 # p2 => prod[p1].fc # prod[p2].fc)
    /\ [][/\ \A p \in Producers :
               BufSendStore(p) => frame_counter' = frame_counter + 1
          /\ \A p \in Producers :
               (prod[p].pc \in {"idle", "put"} /\ prod'[p].pc \in {"idle", "put"})
                   => frame_counter' = frame_counter]_vars

\* the Buffered ticks ended by the shape assertion
Asserted == {k \in 1..Len(ticks) : ticks[k].res = "AssertionError"}

\* C20: the producer-side send_frame of either scheduler takes a wrongly
\* shaped frame without error and without forwarding it.  A tick that forwards
\* such a frame ends with the AssertionError of send_frame, uncaught: it
\* writes nothing and schedules no successor, and from then on no tick runs
\* and nothing is written to the sink.  In the Buffered scheduler last_frame
\* is by then the wrongly shaped frame.
C20_BadShapeHaltsLoop ==
    /\ [](rpc = "crashed" =>
             /\ outcome.res = "AssertionError" /\ rframe.shape # FrameShape
             /\ rtimers = 0)
    /\ [](\A k \in 1..Len(ticks) :
             /\ (ticks[k].frame.shape # FrameShape
                    /\ ticks[k].pc \notin {"latch", "poll", "send"})
                    => k \in Asserted
             /\ k \in Asserted =>
                    /\ ticks[k].pc = "crashed" /\ Len(ticks) = k
                    /\ ticks[k].frame.shape # FrameShape
                    /\ last_frame = ticks[k].frame)
    /\ [][/\ (rpc = "sending" /\ rpc' # "sending" /\ rframe.shape # FrameShape)
                 => (rpc' = "crashed" /\ sinkLog' = sinkLog)
          /\ (rpc = "crashed" \/ Asserted # {})
                 => (sinkLog' = sinkLog /\ rpc' = rpc /\ rtimers' = rtimers
                     /\ ticks' = ticks /\ last_frame' = last_frame)
          /\ (lastframe' # lastframe \/ submitted' # submitted)
                 => (sinkLog' = sinkLog /\ outcome' = outcome)]_vars

\* C20 witness: the Buffered producer handed in a well-shaped frame and then
\* a wrongly shaped one and another frame; the first tick wrote the first
\* frame, the second tick popped the wrongly shaped frame and died of the
\* assertion, leaving it as last_frame and the third frame in the queue
C20_Witness ==
    /\ Len(ticks) = 2 /\ ticks[1].res = "ok" /\ ticks[1].pc = "done"
    /\ Asserted = {2}
    /\ last_frame.shape = BadShape
    /\ Len(sinkLog) = 1 /\ Len(q) = 1

====
